---- MODULE Spec2Model ----
(***************************************************************************)
(* Small-step model of src/test-files/sample.c: a binary search tree with  *)
(* createNode, insert, search, inorderTraversal, freeTree and the driver   *)
(* main.  Every C statement that reads or writes the heap, calls or        *)
(* returns is one action; the call stack is explicit.                      *)
(*                                                                         *)
(* main is generalised in its literals only: it inserts any sequence of    *)
(* values (lines 78-84), then traverses (88), searches one value (93) and  *)
(* frees the tree (101).                                                   *)
(***************************************************************************)
EXTENDS Integers, Sequences, FiniteSets

\* Bounds of the model.
MaxVal == 4
MaxInserts == 4

NULL == 0
Values == 1..MaxVal
\* One cell more than distinct values, so an extra allocation is observable.
Addr == 1..(MaxVal + 1)
Ptr == Addr \cup {NULL}

VARIABLES
    heap,     \* Addr -> [data, left, right]: the Node fields (lines 9-13)
    alloc,    \* Addr -> "free" | "live" | "freed": the allocator's view
    root,     \* main's local root (line 75)
    stack,    \* call stack: frames [fn, pc, root, value, newNode]
    ret,      \* return-value register of the last returning call
    mainpc,   \* main's position
    out,      \* values printed by inorderTraversal (line 59)
    fault,    \* the process died on a store through NULL (line 18)
    hist,     \* history: values of the insert calls main has completed
    arg,      \* history: value passed to main's call in progress
    heap0,    \* history: heap when main last called insert or search
    alloc0,   \* history: alloc at that call
    root0,    \* history: main's root at that call
    examined, \* history: the subtrees search has tested (line 41), in order
    visited,  \* history: nodes visited by inorderTraversal, in order
    freed,    \* history: nodes passed to free(), in order
    uaf,      \* history: a freed node was read, written or freed again
    steps     \* history: statements executed by the call in progress

vars == <<heap, alloc, root, stack, ret, mainpc, out, fault, hist, arg,
          heap0, alloc0, root0, examined, visited, freed, uaf, steps>>

snap == <<heap0, alloc0, root0>>
hists == <<hist, arg, snap, examined, visited, freed, uaf>>

\* The contents of a cell that was never initialised are never read.
Blank == [data |-> 0, left |-> NULL, right |-> NULL]

----------------------------------------------------------------------------
\* Stack helpers.

Frame(fn, r, v) == [fn |-> fn, pc |-> "entry", root |-> r, value |-> v, newNode |-> NULL]

Top == stack[Len(stack)]
Pop == SubSeq(stack, 1, Len(stack) - 1)
Goto(pc) == [stack EXCEPT ![Len(stack)].pc = pc]
Call(f, retpc) == Append(Goto(retpc), f)

Running(fn, pc) ==
    /\ ~fault
    /\ stack # <<>>
    /\ Top.fn = fn
    /\ Top.pc = pc

Tick == steps' = steps + 1

----------------------------------------------------------------------------
\* createNode (lines 16-22)

\* malloc (line 17): the lowest unused cell (the program never compares
\* addresses), or NULL: it may fail at any call and must when no cell is left.
MallocResults ==
    LET unused == {a \in Addr : alloc[a] = "free"}
    IN  {NULL} \cup {a \in unused : \A b \in unused : a <= b}

\* Line 17 falls through to line 18 whatever malloc returned.
CreateNodeAfterMallocChecked(p) == IF p = NULL THEN "ret" ELSE "store"
CreateNodeAfterMalloc(p) == "store"

\* The fields lines 18-20 store.
NewNodeFieldsNoData(value) == [data |-> 0, left |-> NULL, right |-> NULL]
NewNodeFields(value) == [data |-> value, left |-> NULL, right |-> NULL]

CreateNodeMalloc ==
    /\ Running("createNode", "entry")
    /\ \E p \in MallocResults :
          /\ stack' = [stack EXCEPT ![Len(stack)].newNode = p,
                                    ![Len(stack)].pc = CreateNodeAfterMalloc(p)]
          /\ alloc' = IF p = NULL THEN alloc ELSE [alloc EXCEPT ![p] = "live"]
    /\ Tick
    /\ UNCHANGED <<heap, root, ret, mainpc, out, fault, hists>>

\* Lines 18-20.  When malloc returned NULL each of the three stores addresses
\* the unmapped page at 0, so whichever is issued first traps and the process
\* ends there: fault is terminal and nothing is returned to insert.
CreateNodeStore ==
    /\ Running("createNode", "store")
    /\ IF Top.newNode = NULL
       THEN /\ fault' = TRUE
            /\ UNCHANGED <<heap, stack>>
       ELSE /\ heap' = [heap EXCEPT ![Top.newNode] = NewNodeFields(Top.value)]
            /\ stack' = Goto("ret")
            /\ UNCHANGED fault
    /\ Tick
    /\ UNCHANGED <<alloc, root, ret, mainpc, out, hists>>

\* Line 21.
CreateNodeReturn ==
    /\ Running("createNode", "ret")
    /\ ret' = Top.newNode
    /\ stack' = Pop
    /\ Tick
    /\ UNCHANGED <<heap, alloc, root, mainpc, out, fault, hists>>

----------------------------------------------------------------------------
\* insert (lines 25-37)

InsertLessSwapped(value, data) == value > data
InsertLess(value, data) == value < data

InsertGreaterOrEqual(value, data) == value >= data
InsertGreater(value, data) == value > data

\* The subtree the recursive call of line 31 is made on.
InsertLeftArgSelf(r) == r
InsertLeftArg(r) == heap[r].left

\* The value line 36 returns.
InsertResultChild(f) == ret
InsertResult(f) == f.root

\* Lines 26-34, up to the call made or the fall through to line 36.
InsertEntry ==
    /\ Running("insert", "entry")
    /\ LET f == Top IN
       IF f.root = NULL
       THEN stack' = Call(Frame("createNode", NULL, f.value), "retcreate")
       ELSE IF InsertLess(f.value, heap[f.root].data)
       THEN stack' = Call(Frame("insert", InsertLeftArg(f.root), f.value), "linkL")
       ELSE IF InsertGreater(f.value, heap[f.root].data)
       THEN stack' = Call(Frame("insert", heap[f.root].right, f.value), "linkR")
       ELSE stack' = Goto("ret")
    /\ Tick
    /\ UNCHANGED <<heap, alloc, root, ret, mainpc, out, fault, hists>>

\* Line 27: return what createNode returned.
InsertReturnNew ==
    /\ Running("insert", "retcreate")
    /\ stack' = Pop
    /\ Tick
    /\ UNCHANGED <<heap, alloc, root, ret, mainpc, out, fault, hists>>

\* Line 31: root->left = <result of the recursive call>.
InsertLinkLeft ==
    /\ Running("insert", "linkL")
    /\ heap' = [heap EXCEPT ![Top.root].left = ret]
    /\ stack' = Goto("ret")
    /\ Tick
    /\ UNCHANGED <<alloc, root, ret, mainpc, out, fault, hists>>

\* Line 33: root->right = <result of the recursive call>.
InsertLinkRight ==
    /\ Running("insert", "linkR")
    /\ heap' = [heap EXCEPT ![Top.root].right = ret]
    /\ stack' = Goto("ret")
    /\ Tick
    /\ UNCHANGED <<alloc, root, ret, mainpc, out, fault, hists>>

\* Line 36.
InsertReturn ==
    /\ Running("insert", "ret")
    /\ ret' = InsertResult(Top)
    /\ stack' = Pop
    /\ Tick
    /\ UNCHANGED <<heap, alloc, root, mainpc, out, fault, hists>>

----------------------------------------------------------------------------
\* search (lines 40-50)

\* The test of line 41.
SearchStopsOnlyAtNull(r, value) == r = NULL
SearchStops(r, value) == r = NULL \/ heap[r].data = value

\* The test of line 45.
SearchLessSwapped(value, data) == value > data
SearchLess(value, data) == value < data

\* Lines 41-49, up to the return of line 42 or the call made.
SearchEntry ==
    /\ Running("search", "entry")
    /\ LET f == Top IN
       IF SearchStops(f.root, f.value)
       THEN /\ ret' = f.root
            /\ stack' = Pop
       ELSE /\ UNCHANGED ret
            /\ IF SearchLess(f.value, heap[f.root].data)
               THEN stack' = Call(Frame("search", heap[f.root].left, f.value), "tail")
               ELSE stack' = Call(Frame("search", heap[f.root].right, f.value), "tail")
    /\ examined' = Append(examined, Top.root)
    /\ Tick
    /\ UNCHANGED <<heap, alloc, root, mainpc, out, fault, hist, arg, snap, visited, freed, uaf>>

\* Lines 46 and 49: return what the recursive call returned.
SearchReturn ==
    /\ Running("search", "tail")
    /\ stack' = Pop
    /\ Tick
    /\ UNCHANGED <<heap, alloc, root, ret, mainpc, out, fault, hists>>

----------------------------------------------------------------------------
\* inorderTraversal (lines 53-61)

\* The subtree walked before the node is printed (line 58).
TraversalFirstRight(r) == heap[r].right
TraversalFirst(r) == heap[r].left

\* Lines 54-58.
TraversalEntry ==
    /\ Running("inorderTraversal", "entry")
    /\ IF Top.root = NULL
       THEN stack' = Pop
       ELSE stack' = Call(Frame("inorderTraversal", TraversalFirst(Top.root), 0), "visit")
    /\ Tick
    /\ UNCHANGED <<heap, alloc, root, ret, mainpc, out, fault, hists>>

\* Line 59: printf("%d ", root->data).
TraversalVisit ==
    /\ Running("inorderTraversal", "visit")
    /\ out' = Append(out, heap[Top.root].data)
    /\ visited' = Append(visited, Top.root)
    /\ stack' = Goto("right")
    /\ Tick
    /\ UNCHANGED <<heap, alloc, root, ret, mainpc, fault, hist, arg, snap, examined, freed, uaf>>

\* Line 60.
TraversalRight ==
    /\ Running("inorderTraversal", "right")
    /\ stack' = Call(Frame("inorderTraversal", heap[Top.root].right, 0), "ret")
    /\ Tick
    /\ UNCHANGED <<heap, alloc, root, ret, mainpc, out, fault, hists>>

\* Line 61.
TraversalReturn ==
    /\ Running("inorderTraversal", "ret")
    /\ stack' = Pop
    /\ Tick
    /\ UNCHANGED <<heap, alloc, root, ret, mainpc, out, fault, hists>>

----------------------------------------------------------------------------
\* freeTree (lines 64-72)

\* The statements of lines 69-71, in program order.
FreeOrderRootFirst == <<"free", "left", "right">>
FreeOrder == <<"left", "right", "free">>

FreeNext(pc) ==
    LET i == CHOOSE k \in 1..3 : FreeOrder[k] = pc
    IN  IF i = 3 THEN "ret" ELSE FreeOrder[i + 1]

\* What a read of a link of node r yields: the field while r is live, anything
\* once r has been released.
ReadLink(r, fld) == IF alloc[r] = "live" THEN {heap[r][fld]} ELSE Ptr

\* Lines 65-67.
FreeEntry ==
    /\ Running("freeTree", "entry")
    /\ IF Top.root = NULL
       THEN stack' = Pop
       ELSE stack' = Goto(FreeOrder[1])
    /\ Tick
    /\ UNCHANGED <<heap, alloc, root, ret, mainpc, out, fault, hists>>

\* Line 69: freeTree(root->left).
FreeLeft ==
    /\ Running("freeTree", "left")
    /\ \E c \in ReadLink(Top.root, "left") :
          stack' = Call(Frame("freeTree", c, 0), FreeNext("left"))
    /\ uaf' = (uaf \/ alloc[Top.root] # "live")
    /\ Tick
    /\ UNCHANGED <<heap, alloc, root, ret, mainpc, out, fault, hist, arg, snap, examined, visited, freed>>

\* Line 70: freeTree(root->right).
FreeRight ==
    /\ Running("freeTree", "right")
    /\ \E c \in ReadLink(Top.root, "right") :
          stack' = Call(Frame("freeTree", c, 0), FreeNext("right"))
    /\ uaf' = (uaf \/ alloc[Top.root] # "live")
    /\ Tick
    /\ UNCHANGED <<heap, alloc, root, ret, mainpc, out, fault, hist, arg, snap, examined, visited, freed>>

\* Line 71: free(root).
FreeNode ==
    /\ Running("freeTree", "free")
    /\ alloc' = [alloc EXCEPT ![Top.root] = "freed"]
    /\ freed' = Append(freed, Top.root)
    /\ uaf' = (uaf \/ alloc[Top.root] # "live")
    /\ stack' = Goto(FreeNext("free"))
    /\ Tick
    /\ UNCHANGED <<heap, root, ret, mainpc, out, fault, hist, arg, snap, examined, visited>>

\* Line 72.
FreeReturn ==
    /\ Running("freeTree", "ret")
    /\ stack' = Pop
    /\ Tick
    /\ UNCHANGED <<heap, alloc, root, ret, mainpc, out, fault, hists>>

----------------------------------------------------------------------------
\* main (lines 74-104)

AtMain(pc) == ~fault /\ stack = <<>> /\ mainpc = pc

\* Lines 78-84: the call of insert(root, v).
MainInsert ==
    /\ AtMain("build")
    /\ Len(hist) < MaxInserts
    /\ \E v \in Values :
          /\ stack' = <<Frame("insert", root, v)>>
          /\ arg' = v
    /\ mainpc' = "in_insert"
    /\ heap0' = heap
    /\ alloc0' = alloc
    /\ root0' = root
    /\ steps' = 0
    /\ UNCHANGED <<heap, alloc, root, ret, out, fault, hist, examined, visited, freed, uaf>>

\* Line 78 assigns the result of the first insert to root; lines 79-84
\* discard the result.
MainInsertDone ==
    /\ AtMain("in_insert")
    /\ root' = IF hist = <<>> THEN ret ELSE root
    /\ hist' = Append(hist, arg)
    /\ mainpc' = "build"
    /\ UNCHANGED <<heap, alloc, stack, ret, out, fault, arg, snap, examined, visited, freed, uaf, steps>>

\* Line 88.
MainTraverse ==
    /\ AtMain("build")
    /\ stack' = <<Frame("inorderTraversal", root, 0)>>
    /\ mainpc' = "in_traversal"
    /\ steps' = 0
    /\ UNCHANGED <<heap, alloc, root, ret, out, fault, hists>>

\* Line 89.
MainTraverseDone ==
    /\ AtMain("in_traversal")
    /\ mainpc' = "searching"
    /\ UNCHANGED <<heap, alloc, root, stack, ret, out, fault, hists, steps>>

\* Lines 92-93.
MainSearch ==
    /\ AtMain("searching")
    /\ \E v \in Values :
          /\ stack' = <<Frame("search", root, v)>>
          /\ arg' = v
    /\ mainpc' = "in_search"
    /\ heap0' = heap
    /\ alloc0' = alloc
    /\ root0' = root
    /\ steps' = 0
    /\ UNCHANGED <<heap, alloc, root, ret, out, fault, hist, examined, visited, freed, uaf>>

\* Lines 94-98.
MainSearchDone ==
    /\ AtMain("in_search")
    /\ mainpc' = "freeing"
    /\ UNCHANGED <<heap, alloc, root, stack, ret, out, fault, hists, steps>>

\* Line 101.
MainFree ==
    /\ AtMain("freeing")
    /\ stack' = <<Frame("freeTree", root, 0)>>
    /\ mainpc' = "in_free"
    /\ steps' = 0
    /\ UNCHANGED <<heap, alloc, root, ret, out, fault, hists>>

\* Line 103.
MainExit ==
    /\ AtMain("in_free")
    /\ mainpc' = "exit"
    /\ UNCHANGED <<heap, alloc, root, stack, ret, out, fault, hists, steps>>

----------------------------------------------------------------------------

Init ==
    /\ heap = [a \in Addr |-> Blank]
    /\ alloc = [a \in Addr |-> "free"]
    /\ root = NULL
    /\ stack = <<>>
    /\ ret = NULL
    /\ mainpc = "build"
    /\ out = <<>>
    /\ fault = FALSE
    /\ hist = <<>>
    /\ arg = 0
    /\ heap0 = [a \in Addr |-> Blank]
    /\ alloc0 = [a \in Addr |-> "free"]
    /\ root0 = NULL
    /\ examined = <<>>
    /\ visited = <<>>
    /\ freed = <<>>
    /\ uaf = FALSE
    /\ steps = 0

\* One statement of the function on top of the stack.
Step ==
    \/ CreateNodeMalloc \/ CreateNodeStore \/ CreateNodeReturn
    \/ InsertEntry \/ InsertReturnNew \/ InsertLinkLeft \/ InsertLinkRight \/ InsertReturn
    \/ SearchEntry \/ SearchReturn
    \/ TraversalEntry \/ TraversalVisit \/ TraversalRight \/ TraversalReturn
    \/ FreeEntry \/ FreeLeft \/ FreeRight \/ FreeNode \/ FreeReturn

Main ==
    \/ MainInsert \/ MainInsertDone
    \/ MainTraverse \/ MainTraverseDone
    \/ MainSearch \/ MainSearchDone
    \/ MainFree \/ MainExit

Next == Step \/ Main

Spec == Init /\ [][Next]_vars

----------------------------------------------------------------------------
\* Definitions used to state the properties.

RECURSIVE NodesIn(_, _)
NodesIn(h, n) ==
    IF n = NULL THEN {} ELSE {n} \cup NodesIn(h, h[n].left) \cup NodesIn(h, h[n].right)

ValsIn(h, n) == {h[x].data : x \in NodesIn(h, n)}

RECURSIVE HeightIn(_, _)
HeightIn(h, n) ==
    IF n = NULL THEN 0
    ELSE LET l == HeightIn(h, h[n].left)
             r == HeightIn(h, h[n].right)
         IN  1 + (IF l > r THEN l ELSE r)

RECURSIVE PostOrderIn(_, _)
PostOrderIn(h, n) ==
    IF n = NULL THEN <<>>
    ELSE PostOrderIn(h, h[n].left) \o PostOrderIn(h, h[n].right) \o <<n>>

Nodes(n) == NodesIn(heap, n)
Vals(n) == ValsIn(heap, n)
Height(n) == HeightIn(heap, n)

Range(s) == {s[i] : i \in DOMAIN s}
NoDup(s) == \A i, j \in DOMAIN s : s[i] = s[j] => i = j
IsPrefix(s, t) == Len(s) <= Len(t) /\ \A i \in DOMAIN s : s[i] = t[i]

RECURSIVE SortSet(_)
SortSet(S) ==
    IF S = {} THEN <<>>
    ELSE LET m == CHOOSE x \in S : \A y \in S : x <= y
         IN  <<m>> \o SortSet(S \ {m})

Live == {a \in Addr : alloc[a] = "live"}
Live0 == {a \in Addr : alloc0[a] = "live"}
Building == mainpc \in {"build", "in_insert"}
Depth(fn) == Cardinality({i \in DOMAIN stack : stack[i].fn = fn})

----------------------------------------------------------------------------
\* C1: in every state reached by insert calls from the empty tree, also in
\* the middle of a call, every node of the tree is an allocated, initialised
\* node, every value in its left subtree is smaller than its own and every
\* value in its right subtree is greater.
C1_BSTInvariant ==
    mainpc \notin {"in_free", "exit"} =>
        \A n \in Nodes(root) :
            /\ alloc[n] = "live"
            /\ heap[n].data \in Values
            /\ \A x \in Nodes(heap[n].left) : heap[x].data < heap[n].data
            /\ \A x \in Nodes(heap[n].right) : heap[x].data > heap[n].data

\* A three-node tree with both children of the root, in the middle of an insert.
C1_Witness ==
    /\ mainpc = "in_insert"
    /\ stack # <<>>
    /\ Top.pc = "ret"
    /\ Cardinality(Nodes(root)) = 3
    /\ heap[root].left # NULL
    /\ heap[root].right # NULL

\* C2: when search(root, v) has returned to main, its result is a node of the
\* tree holding v if v is among the inserted values, and NULL otherwise.
C2_SearchCorrect ==
    AtMain("in_search") =>
        IF arg \in Range(hist)
        THEN ret \in Nodes(root) /\ heap[ret].data = arg
        ELSE ret = NULL

\* A search that found its value below the root.
C2_Witness ==
    /\ AtMain("in_search")
    /\ ret # NULL
    /\ ret # root
    /\ heap[ret].data = arg

\* C3: when inorderTraversal(root) has returned to main, it has printed the
\* distinct inserted values in ascending order and visited every node of the
\* tree exactly once (nothing for the empty tree).
C3_InorderSorted ==
    AtMain("in_traversal") =>
        /\ out = SortSet(Range(hist))
        /\ NoDup(visited)
        /\ Range(visited) = Nodes(root)
        /\ \A i \in DOMAIN visited : heap[visited[i]].data = out[i]

\* A traversal of three nodes built by a sequence with a duplicate.
C3_Witness ==
    /\ AtMain("in_traversal")
    /\ Len(out) = 3
    /\ Len(hist) = 4

\* C4: an insert of a value the tree already holds changes no field of any
\* node, allocates nothing and leaves main's root as it was, at every step of
\* the call; and the tree holds one node per distinct inserted value.
C4_DuplicateNoOp ==
    /\ (Building /\ arg \in ValsIn(heap0, root0)) =>
            (heap = heap0 /\ alloc = alloc0 /\ root = root0)
    /\ AtMain("build") =>
            /\ Cardinality(Nodes(root)) = Cardinality(Range(hist))
            /\ \A v \in Range(hist) : Cardinality({n \in Nodes(root) : heap[n].data = v}) = 1

\* A completed insert of a value held below the root.
C4_Witness ==
    /\ AtMain("build")
    /\ hist # <<>>
    /\ arg \in ValsIn(heap0, root0)
    /\ arg # heap[root].data
    /\ steps > 0

\* C5: an insert call on a non-NULL subtree returns that subtree's root, at
\* every level of the recursion; a call on NULL returns a node that did not
\* exist when main made the call; and the value main inserted through a
\* non-NULL root is in the tree under that same root although main discards
\* the result.
C5_ReturnsSameRoot ==
    /\ \A fld \in {"left", "right"} :
          Running("insert", IF fld = "left" THEN "linkL" ELSE "linkR") =>
              IF heap[Top.root][fld] # NULL
              THEN ret = heap[Top.root][fld]
              ELSE ret # NULL /\ alloc0[ret] = "free" /\ alloc[ret] = "live"
    /\ AtMain("in_insert") =>
          IF root0 # NULL
          THEN ret = root0 /\ root = root0 /\ arg \in Vals(root0)
          ELSE ret # NULL /\ alloc0[ret] = "free" /\ alloc[ret] = "live"
    /\ (AtMain("build") /\ hist # <<>>) => arg \in Vals(root)

\* An insert of a new value through a non-NULL root has returned to main.
C5_Witness ==
    /\ AtMain("in_insert")
    /\ root0 # NULL
    /\ arg \notin ValsIn(heap0, root0)
    /\ ret = root
    /\ Len(hist) >= 2

\* C6: freeTree passes the nodes of the tree to free() in post-order (left
\* subtree, right subtree, node), each exactly once and nothing else, never
\* touches a node it has released, and releases nothing for a NULL root.
C6_FreeOrder ==
    /\ ~uaf
    /\ NoDup(freed)
    /\ \A a \in Addr : alloc[a] = "freed" <=> a \in Range(freed)
    /\ IsPrefix(freed, PostOrderIn(heap, root))
    /\ mainpc \notin {"in_free", "exit"} => freed = <<>>
    /\ mainpc = "in_free" => heap = heap0
    /\ (AtMain("in_free") \/ mainpc = "exit") =>
          /\ freed = PostOrderIn(heap, root)
          /\ Live = {}

\* A tree whose root has two children has been released.
C6_Witness ==
    /\ mainpc = "exit"
    /\ Len(freed) = 3
    /\ freed[3] = root
    /\ heap[root].left = freed[1]
    /\ heap[root].right = freed[2]

\* C7: an insert of a value the tree does not hold allocates exactly one
\* node, holding that value with both links NULL, and stores it in exactly
\* one link that was NULL (or returns it to main for the empty tree); no other
\* field of any node changes; an insert of a held value allocates nothing;
\* no node disappears while main is inserting.
C7_ChangedLinks ==
    {<<n, fld>> \in Live0 \X {"left", "right"} : heap[n][fld] # heap0[n][fld]}

C7_InsertCreatesOneLeaf ==
    /\ Building =>
          /\ Live0 \subseteq Live
          /\ \A n \in Live0 :
                /\ heap[n].data = heap0[n].data
                /\ \A fld \in {"left", "right"} :
                      \/ heap[n][fld] = heap0[n][fld]
                      \/ heap0[n][fld] = NULL /\ heap[n][fld] \in Live \ Live0
    /\ (AtMain("in_insert") /\ arg \notin ValsIn(heap0, root0)) =>
          \E a \in Addr :
             /\ Live \ Live0 = {a}
             /\ heap[a] = [data |-> arg, left |-> NULL, right |-> NULL]
             /\ IF root0 = NULL
                THEN ret = a /\ C7_ChangedLinks = {}
                ELSE /\ Cardinality(C7_ChangedLinks) = 1
                     /\ \A c \in C7_ChangedLinks : heap[c[1]][c[2]] = a
                     /\ Nodes(root0) = NodesIn(heap0, root0) \cup {a}
    /\ (AtMain("in_insert") /\ arg \in ValsIn(heap0, root0)) => Live = Live0

\* A new value has been attached two levels below the root.
C7_Witness ==
    /\ AtMain("in_insert")
    /\ arg \notin ValsIn(heap0, root0)
    /\ Cardinality(Live0) = 2
    /\ \E c \in C7_ChangedLinks : c[1] # root0

\* C8: the subtrees search is called on form one downward path from main's
\* root: each next one is the left child when the value is smaller than the
\* node's and the right child when it is greater; the path ends at the node
\* holding the value or at NULL; it has at most Height(root) nodes; and
\* search changes no node.
C8_SearchPath ==
    mainpc = "in_search" =>
        /\ heap = heap0 /\ alloc = alloc0
        /\ examined # <<>> => examined[1] = root
        /\ Len(stack) <= Len(examined) + 1
        /\ \A i \in DOMAIN stack : i <= Len(examined) => stack[i].root = examined[i]
        /\ \A i \in 1..(Len(examined) - 1) :
              LET n == examined[i] IN
              /\ n # NULL
              /\ heap[n].data # arg
              /\ examined[i + 1] = IF arg < heap[n].data THEN heap[n].left ELSE heap[n].right
        /\ Cardinality({i \in DOMAIN examined : examined[i] # NULL}) <= Height(root)
        /\ AtMain("in_search") =>
              /\ ret = examined[Len(examined)]
              /\ ret = NULL \/ heap[ret].data = arg

\* A search that went left and then right.
C8_Witness ==
    /\ AtMain("in_search")
    /\ Len(examined) = 3
    /\ examined[2] = heap[root].left
    /\ examined[3] = heap[examined[2]].right
    /\ examined[3] # NULL

\* C9: a call in progress can always take its next step, takes a number of
\* steps bounded by the size of the tree, and never nests deeper than the
\* height of the tree plus one; values inserted in strictly ascending or
\* descending order build a chain as high as their number.
C9_Ascending(s) == \A i \in 1..(Len(s) - 1) : s[i] < s[i + 1]
C9_Descending(s) == \A i \in 1..(Len(s) - 1) : s[i] > s[i + 1]

C9_TerminationAndDepth ==
    /\ (stack # <<>> /\ ~fault) => ENABLED Step
    /\ mainpc = "in_insert" =>
          /\ Depth("insert") <= Height(root) + 1
          /\ steps <= 3 * Height(root) + 5
    /\ mainpc = "in_search" =>
          /\ Depth("search") <= Height(root) + 1
          /\ steps <= 2 * Height(root) + 1
    /\ mainpc = "in_traversal" =>
          /\ Depth("inorderTraversal") <= Height(root) + 1
          /\ steps <= 5 * Cardinality(Nodes(root)) + 1
    /\ mainpc = "in_free" =>
          /\ Depth("freeTree") <= Height(root) + 1
          /\ steps <= 6 * Cardinality(Nodes(root)) + 1
    /\ (AtMain("build") /\ C9_Ascending(hist)) =>
          /\ Height(root) = Len(hist)
          /\ \A n \in Nodes(root) : heap[n].left = NULL
    /\ (AtMain("build") /\ C9_Descending(hist)) =>
          /\ Height(root) = Len(hist)
          /\ \A n \in Nodes(root) : heap[n].right = NULL

\* The insert of the fourth ascending value is nested four deep.
C9_Witness ==
    /\ mainpc = "in_insert"
    /\ hist = <<1, 2, 3>>
    /\ arg = 4
    /\ Depth("insert") = 4
    /\ Height(root) = 3

\* C10: whenever malloc has returned NULL, createNode's next statement is the
\* store through it, which faults; malloc can fail in every createNode call;
\* createNode never returns NULL, no link step ever stores NULL, and a fault
\* leaves the tree as it was before the call.
C10_MallocFails ==
    /\ CreateNodeMalloc
    /\ stack'[Len(stack)].newNode = NULL

C10_UncheckedAllocation ==
    /\ \A i \in DOMAIN stack :
          (stack[i].fn = "createNode" /\ stack[i].pc # "entry" /\ stack[i].newNode = NULL)
              => stack[i].pc = "store"
    /\ Running("createNode", "entry") => ENABLED C10_MallocFails
    /\ Running("insert", "retcreate") => ret # NULL
    /\ (Running("insert", "linkL") \/ Running("insert", "linkR")) => ret # NULL
    /\ fault =>
          /\ Top.fn = "createNode" /\ Top.pc = "store" /\ Top.newNode = NULL
          /\ mainpc = "in_insert"
          /\ heap = heap0 /\ alloc = alloc0 /\ root = root0

\* The process has faulted in an insert two levels below the root.
C10_Witness ==
    /\ fault
    /\ Cardinality(Nodes(root)) = 2
    /\ Depth("insert") = 3

====
